---- MODULE Spec2Model ----
(***************************************************************************)
(* The panel layout engine of the new-tab dashboard: layoutManager.js      *)
(* (registration, drag and resize handlers, the debounced save) on top of  *)
(* layoutStorage.js (the persisted layout document in localStorage).       *)
(*                                                                         *)
(* Pixel values are integers.  Percentages are resolved with an exact      *)
(* integer division: the viewports below are chosen so that every          *)
(* percentage of the registry resolves to a whole number of pixels, which  *)
(* is also what the floating point expression of parseValue yields there.  *)
(***************************************************************************)
EXTENDS Integers, FiniteSets, Sequences, TLC

(***************************************************************************)
(* Bounds of the model.                                                    *)
(***************************************************************************)
\* gesture starts, move events and page teardowns over one behaviour
MaxEvents == 4

(***************************************************************************)
(* Program constants.                                                      *)
(***************************************************************************)
STORAGE_VERSION == 1
FRONT_Z_INDEX == 1000
DEFAULT_MIN_WIDTH == 200
DEFAULT_MIN_HEIGHT == 150
MOBILE_MAX_WIDTH == 768
TABLET_MAX_WIDTH == 1024

(***************************************************************************)
(* The widget registry: the layout part of the registered widget configs.  *)
(* A length is [pct |-> TRUE, n |-> 80] for '80%' and                      *)
(* [pct |-> FALSE, n |-> 150] for '150px' or 150.  resizable is the        *)
(* boolean true/false ([kind |-> "bool"]) or an object with a width and a  *)
(* height flag ([kind |-> "object"]).  dragHandle is a selector or "null". *)
(***************************************************************************)
Pct(n) == [pct |-> TRUE, n |-> n]
Px(n) == [pct |-> FALSE, n |-> n]

Panels == {"clock", "calendar"}

clockWidget ==
    [ defaultPosition |-> [x |-> Pct(10), y |-> Pct(5)],
      defaultSize     |-> [width |-> Pct(80), height |-> Px(150)],
      minSize         |-> [width |-> 300, height |-> 100],
      resizable       |-> [kind |-> "object", width |-> TRUE, height |-> FALSE],
      draggable       |-> TRUE,
      dragHandle      |-> "null",
      zIndex          |-> 1 ]

calendarWidget ==
    [ defaultPosition |-> [x |-> Pct(5), y |-> Px(200)],
      defaultSize     |-> [width |-> Px(400), height |-> Px(350)],
      minSize         |-> [width |-> 300, height |-> 280],
      resizable       |-> [kind |-> "bool", value |-> TRUE],
      draggable       |-> TRUE,
      dragHandle      |-> ".widget-header",
      zIndex          |-> 2 ]

\* getLayoutConfig: the widget's layout merged over the defaults.  Both
\* registered widgets set every key, so the merge yields the widget's own.
getLayoutConfig(p) == IF p = "clock" THEN clockWidget ELSE calendarWidget

\* The lifecycle hooks a widget config carries (registerWidget copies them).
\* The calendar is given all five so that hook calls are observable.
HookNames == {"onDragStart", "onDragEnd", "onResizeStart", "onResize", "onResizeEnd"}
configHooks(p) == IF p = "calendar" THEN HookNames ELSE {}

\* if (config.onX) config.onX(...): the hook the handler calls, or "none"
callHook(p, name) == IF name \in configHooks(p) THEN name ELSE "none"

\* what the call of the hook can do: the config has none, it returns, it throws
HookOutcomes(p, name) ==
    IF name \in configHooks(p) THEN {"returns", "throws"} ELSE {"absent"}

(***************************************************************************)
(* The viewports a page load can find (window.innerWidth/innerHeight).     *)
(***************************************************************************)
Viewports == { [width |-> 360, height |-> 1080], [width |-> 1920, height |-> 1080] }

(***************************************************************************)
(* The DOM of one panel: the container and the elements a pointer can go   *)
(* down on.  header is the element '.widget-header' selects.               *)
(***************************************************************************)
Elements == {"container", "header", "headerTitle", "headerButton", "contentInput"}

parentOf(e) ==
    CASE e = "header"       -> "container"
      [] e = "headerTitle"  -> "header"
      [] e = "headerButton" -> "header"
      [] e = "contentInput" -> "container"
      [] OTHER              -> "none"

\* Node.contains: other is node itself or a descendant of node
RECURSIVE contains(_, _)
contains(node, other) ==
    IF other = "none" THEN FALSE
    ELSE IF other = node THEN TRUE
    ELSE contains(node, parentOf(other))

\* elements matching the selector 'input, textarea, button, select, a'
InteractiveElements == {"headerButton", "contentInput"}

\* ignoreFrom of the draggable options: the element the pointer went down on,
\* or one of its ancestors up to the container, matches the selector
RECURSIVE ignoreFrom(_)
ignoreFrom(e) ==
    IF e = "none" THEN FALSE
    ELSE IF e \in InteractiveElements THEN TRUE
    ELSE ignoreFrom(parentOf(e))

\* container.querySelector(layoutConfig.dragHandle), or null
dragHandleOf(p) ==
    IF getLayoutConfig(p).dragHandle = "null" THEN "null" ELSE "header"

(***************************************************************************)
(* Geometry Resolver.                                                      *)
(***************************************************************************)
\* parseValue that takes every spec for a pixel value
parseValueAsPixels(value, reference) == value.n

parseValue(value, reference) ==
    IF value.pct THEN (value.n * reference) \div 100 ELSE value.n

getDefaultPosition(config, vp) ==
    [ x      |-> parseValue(config.defaultPosition.x, vp.width),
      y      |-> parseValue(config.defaultPosition.y, vp.height),
      width  |-> parseValue(config.defaultSize.width, vp.width),
      height |-> parseValue(config.defaultSize.height, vp.height),
      zIndex |-> IF "zIndex" \in DOMAIN config /\ config.zIndex # 0
                 THEN config.zIndex ELSE 1 ]

(***************************************************************************)
(* Persistence Store.  The localStorage item is absent ([kind |-> "none"]),*)
(* a text that JSON.parse rejects ([kind |-> "garbage"]) or the JSON text  *)
(* of an object ([kind |-> "json", ...]): the other fields of the record   *)
(* are the members the object has.  A version member is a number, a        *)
(* layouts member is a map of geometries or JSON null.  The timestamp      *)
(* member is written and never read; it is left out of the model.          *)
(***************************************************************************)
NoItem == [kind |-> "none"]

\* getCurrentBreakpoint with the limits counted into the smaller class
getCurrentBreakpointInclusive(vp) ==
    IF vp.width <= MOBILE_MAX_WIDTH THEN "mobile"
    ELSE IF vp.width <= TABLET_MAX_WIDTH THEN "tablet"
    ELSE "desktop"

getCurrentBreakpoint(vp) ==
    IF vp.width < MOBILE_MAX_WIDTH THEN "mobile"
    ELSE IF vp.width < TABLET_MAX_WIDTH THEN "tablet"
    ELSE "desktop"

\* the layouts object ([kind |-> "layouts", map |-> ...]) or null
NullLayouts == [kind |-> "null"]
Layouts(m) == [kind |-> "layouts", map |-> m]
EmptyMap == [q \in {} |-> 0]

\* the value of a layouts member that is JSON null
JsonNull == [jsonNull |-> TRUE]
\* data.layouts of a document that has no layouts member
UndefinedLayouts == [kind |-> "undefined"]

\* loadLayouts without the version check
loadLayoutsAnyVersion(item) ==
    IF item.kind = "none" THEN NullLayouts
    ELSE IF item.kind = "garbage" THEN NullLayouts
    ELSE IF "layouts" \notin DOMAIN item THEN UndefinedLayouts
    ELSE IF item.layouts = JsonNull THEN NullLayouts
    ELSE Layouts(item.layouts)

\* loadLayouts discarding a document recorded at another breakpoint than desktop
loadLayoutsDesktopOnly(item) ==
    IF item.kind = "none" THEN NullLayouts
    ELSE IF item.kind = "garbage" THEN NullLayouts
    ELSE IF "version" \notin DOMAIN item THEN NullLayouts
    ELSE IF item.version # STORAGE_VERSION THEN NullLayouts
    ELSE IF "breakpoint" \in DOMAIN item /\ item.breakpoint # "desktop" THEN NullLayouts
    ELSE IF "layouts" \notin DOMAIN item THEN UndefinedLayouts
    ELSE IF item.layouts = JsonNull THEN NullLayouts
    ELSE Layouts(item.layouts)

loadLayouts(item) ==
    IF item.kind = "none" THEN NullLayouts
    ELSE IF item.kind = "garbage" THEN NullLayouts
    ELSE IF "version" \notin DOMAIN item THEN NullLayouts
    ELSE IF item.version # STORAGE_VERSION THEN NullLayouts
    ELSE IF "layouts" \notin DOMAIN item THEN UndefinedLayouts
    ELSE IF item.layouts = JsonNull THEN NullLayouts
    ELSE Layouts(item.layouts)

\* layouts ? layouts[widgetId] : null.  The entry when there is one; without
\* one the value is undefined when there is a map and null when loadLayouts
\* returned null or undefined
loadWidgetLayout(item, widgetId) ==
    LET layouts == loadLayouts(item) IN
    IF layouts.kind = "layouts" /\ widgetId \in DOMAIN layouts.map
    THEN [found |-> TRUE, layout |-> layouts.map[widgetId]]
    ELSE IF layouts.kind = "layouts"
    THEN [found |-> FALSE, value |-> "undefined"]
    ELSE [found |-> FALSE, value |-> "null"]

\* saveLayouts writing a document without the version member
saveLayoutsUnversioned(item, layouts, vp, quotaOk) ==
    IF quotaOk
    THEN [ kind |-> "json", breakpoint |-> getCurrentBreakpoint(vp), layouts |-> layouts ]
    ELSE item

\* saveLayouts whose failed write loses the item
saveLayoutsLosingItem(item, layouts, vp, quotaOk) ==
    IF quotaOk
    THEN [ kind |-> "json", version |-> STORAGE_VERSION,
           breakpoint |-> getCurrentBreakpoint(vp), layouts |-> layouts ]
    ELSE NoItem

\* the item after saveLayouts(layouts); setItem throws (and the catch logs)
\* when the quota is exceeded, leaving the item as it was
saveLayouts(item, layouts, vp, quotaOk) ==
    IF quotaOk
    THEN [ kind |-> "json", version |-> STORAGE_VERSION,
           breakpoint |-> getCurrentBreakpoint(vp), layouts |-> layouts ]
    ELSE item

\* saveWidgetLayout starting from an empty map whatever the item holds
saveWidgetLayoutAlone(item, widgetId, layout, vp, quotaOk) ==
    saveLayouts(item, [q \in {widgetId} |-> layout], vp, quotaOk)

\* layouts = loadLayouts() || {}; layouts[widgetId] = layout; saveLayouts(layouts)
saveWidgetLayout(item, widgetId, layout, vp, quotaOk) ==
    LET loaded  == loadLayouts(item)
        layouts == IF loaded.kind = "layouts" THEN loaded.map ELSE EmptyMap
        updated == [q \in (DOMAIN layouts) \cup {widgetId} |->
                       IF q = widgetId THEN layout ELSE layouts[q]]
    IN saveLayouts(item, updated, vp, quotaOk)

\* removeWidgetLayout removing the item with the entry
removeWidgetLayoutClearing(item, widgetId, vp, quotaOk) ==
    LET layouts == loadLayouts(item) IN
    IF layouts.kind = "layouts" /\ widgetId \in DOMAIN layouts.map THEN NoItem ELSE item

\* if (layouts && layouts[widgetId]) { delete layouts[widgetId]; saveLayouts(layouts) }
\* (an entry is a geometry object, which is truthy)
removeWidgetLayout(item, widgetId, vp, quotaOk) ==
    LET layouts == loadLayouts(item) IN
    IF layouts.kind = "layouts" /\ widgetId \in DOMAIN layouts.map
    THEN saveLayouts(item, [q \in (DOMAIN layouts.map) \ {widgetId} |-> layouts.map[q]],
                     vp, quotaOk)
    ELSE item

clearAllLayouts(item) == NoItem

\* exportLayouts: stored || '{}', the text of an object without members when
\* there is no item
exportLayouts(item) == IF item.kind = "none" THEN [kind |-> "json"] ELSE item

\* importLayouts: if (data.version && data.layouts) tests truthiness
truthyVersion(data) == "version" \in DOMAIN data /\ data.version # 0
truthyLayouts(data) == "layouts" \in DOMAIN data /\ data.layouts # JsonNull

\* importLayouts accepting a snapshot as soon as both members are present
importAcceptsPresentMembers(jsonString) ==
    /\ jsonString.kind = "json"
    /\ "version" \in DOMAIN jsonString
    /\ "layouts" \in DOMAIN jsonString

\* the snapshot passes the test of importLayouts
importAccepts(jsonString) ==
    /\ jsonString.kind = "json"
    /\ truthyVersion(jsonString)
    /\ truthyLayouts(jsonString)

\* the item after importLayouts(jsonString) and the value it returns; a
\* setItem that throws is caught like a parse error
importLayouts(item, jsonString, quotaOk) ==
    IF importAccepts(jsonString) /\ quotaOk
    THEN [item |-> jsonString, result |-> TRUE]
    ELSE [item |-> item, result |-> FALSE]


(***************************************************************************)
(* State.                                                                  *)
(***************************************************************************)
VARIABLES
    page,              \* "loading": module loaded, panels not yet registered; "active";
                       \* "unloading": location.reload() was called, the document is still alive
    viewport,          \* window.innerWidth / innerHeight of this page load
    localStorage,      \* the item stored under LAYOUT_STORAGE_KEY
    widgetPositions,   \* the Map widgetId -> position object (a reference)
    heap,              \* the position objects: reference -> geometry
    style,             \* inline style of each container
    classList,         \* class names the engine puts on each container
    resizeHandles,     \* containers that got a 'resize-handle' child
    attached,          \* interact.js machines attached to each container
    gesture,           \* the interaction in progress on each container
    activeEdges,       \* the edges the resize in progress moves
    saveTimeout,       \* the timer id held by saveTimeout, 0 for null
    timers,            \* the timeouts the browser still has to run
    nextTimerId,       \* the id the next setTimeout returns
    isModifierKeyHeld, \* the free-drag flag
    bodyClasses,       \* class names on document.body
    keyListeners,      \* sets of keydown/keyup/contextmenu/blur listeners installed
    nEvents,           \* gesture starts, moves and page teardowns so far
    lastEvent,         \* history: the last pointer, timer or page event handled
    preDragZ,          \* history: rendered z-index when the panel's last drag started
    dragFrom,          \* history: cached geometry when the drag in progress started
    dragSum,           \* history: sum of the deltas of the drag's move events so far
    resetPending,      \* history: resetLayout ran and the panels are not registered again yet
    finalGeom,         \* history: geometry at the panel's last gesture end of this page load
    bursts,            \* history: gesture ends that found no save pending, this page load
    timerWrites        \* history: setItem calls made by fired save timers, this page load

vars == << page, viewport, localStorage, widgetPositions, heap, style, classList,
           resizeHandles, attached, gesture, activeEdges, saveTimeout, timers,
           nextTimerId, isModifierKeyHeld, bodyClasses, keyListeners, nEvents,
           lastEvent, preDragZ, dragFrom, dragSum, resetPending, finalGeom, bursts,
           timerWrites >>

domVars == << style, classList, resizeHandles, attached >>
cacheVars == << widgetPositions, heap >>
timerVars == << saveTimeout, timers, nextTimerId >>
keyVars == << isModifierKeyHeld, bodyClasses >>
dragHist == << dragFrom, dragSum >>

\* registration handing every panel one and the same position object
RefShared(p) == "clock"

\* the reference of the position object created when p is registered
RefOf(p) == p

ZAuto == [auto |-> TRUE, value |-> 0]
ZNum(n) == [auto |-> FALSE, value |-> n]
\* position.zIndex || 'auto'
zIndexOrAuto(position) == IF position.zIndex # 0 THEN ZNum(position.zIndex) ELSE ZAuto

Unstyled == [applied |-> FALSE]
NoGeom == [set |-> FALSE]
Event(type, panel, arg, hook, ok) ==
    [type |-> type, panel |-> panel, arg |-> arg, hook |-> hook, ok |-> ok]

\* applyPosition: the inline style after the geometry is applied
applyPosition(position) ==
    [ applied |-> TRUE, x |-> position.x, y |-> position.y,
      width |-> position.width, height |-> position.height,
      zIndex |-> zIndexOrAuto(position) ]

\* registration that ignores the saved layout
initialPositionDefaultOnly(item, widgetId, vp) ==
    getDefaultPosition(getLayoutConfig(widgetId), vp)

\* the geometry registration gives widgetId: the saved layout or the default
initialPosition(item, widgetId, vp) ==
    LET savedLayout == loadWidgetLayout(item, widgetId) IN
    IF savedLayout.found THEN savedLayout.layout
    ELSE getDefaultPosition(getLayoutConfig(widgetId), vp)

\* makeResizable: the edges interact.js may resize from
canResizeWidth(config) ==
    IF config.resizable.kind = "object" THEN config.resizable.width ELSE TRUE
canResizeHeight(config) ==
    IF config.resizable.kind = "object" THEN config.resizable.height ELSE TRUE
\* makeResizable enabling both edges whatever the layout says
resizeEdgesBoth(config) == {"right", "bottom"}

resizeEdges(config) ==
    (IF canResizeWidth(config) THEN {"right"} ELSE {}) \cup
    (IF canResizeHeight(config) THEN {"bottom"} ELSE {})

\* if (layoutConfig.resizable): false is the only falsy value it can take
resizableTruthy(config) ==
    IF config.resizable.kind = "bool" THEN config.resizable.value ELSE TRUE

\* the machines initializeWidget attaches
machinesOf(config) ==
    (IF config.draggable THEN {"drag"} ELSE {}) \cup
    (IF resizableTruthy(config) THEN {"resize"} ELSE {})

\* the min of the restrictSize modifier: minSize?.width || 200, minSize?.height || 150
restrictSizeMin(config) ==
    [ width  |-> IF config.minSize.width # 0 THEN config.minSize.width ELSE DEFAULT_MIN_WIDTH,
      height |-> IF config.minSize.height # 0 THEN config.minSize.height ELSE DEFAULT_MIN_HEIGHT ]

Max(a, b) == IF a >= b THEN a ELSE b

(***************************************************************************)
(* Init: the module is loaded on a fresh profile; nothing is registered.   *)
(***************************************************************************)
\* the script state of a freshly loaded page
LoadedModule ==
    /\ page = "loading"
    /\ widgetPositions = EmptyMap
    /\ heap = EmptyMap
    /\ style = [p \in Panels |-> Unstyled]
    /\ classList = [p \in Panels |-> {}]
    /\ resizeHandles = {}
    /\ attached = [p \in Panels |-> {}]
    /\ gesture = [p \in Panels |-> "idle"]
    /\ activeEdges = [p \in Panels |-> {}]
    /\ saveTimeout = 0
    /\ timers = {}
    /\ nextTimerId = 1
    /\ isModifierKeyHeld = FALSE
    /\ bodyClasses = {}
    /\ keyListeners = 0
    /\ nEvents = 0
    /\ lastEvent = Event("load", "none", <<>>, "none", TRUE)
    /\ preDragZ = [p \in Panels |-> ZAuto]
    /\ dragFrom = [p \in Panels |-> NoGeom]
    /\ dragSum = [p \in Panels |-> <<0, 0>>]
    /\ resetPending = FALSE
    /\ finalGeom = [p \in Panels |-> NoGeom]
    /\ bursts = 0
    /\ timerWrites = 0

Init ==
    /\ viewport \in Viewports
    /\ localStorage = NoItem
    /\ LoadedModule

(***************************************************************************)
(* initializeCustomLayout: registers every widget of the registry.         *)
(***************************************************************************)
\* registration writing the geometry it gave every panel to the store
afterRegistrationPersisting(item, vp) ==
    saveLayouts(item, [p \in Panels |-> initialPosition(item, p, vp)], vp, TRUE)

\* the item after initializeWidget ran for every panel: the store is read
\* (loadWidgetLayout) and never written
afterRegistration(item, vp) == item

InitializeCustomLayout ==
    /\ page = "loading"
    /\ page' = "active"
    /\ bodyClasses' = bodyClasses \cup {"custom-layout-mode"}
    /\ keyListeners' = keyListeners + 1
    /\ widgetPositions' = [p \in Panels |-> RefOf(p)]
    /\ heap' = [p \in Panels |-> initialPosition(localStorage, p, viewport)]
    /\ style' = [p \in Panels |-> applyPosition(initialPosition(localStorage, p, viewport))]
    /\ attached' = [p \in Panels |-> machinesOf(getLayoutConfig(p))]
    /\ classList' = [p \in Panels |-> classList[p] \cup {"layout-enabled"}]
    /\ resizeHandles' = {p \in Panels : resizableTruthy(getLayoutConfig(p))}
    /\ preDragZ' = [p \in Panels |-> zIndexOrAuto(initialPosition(localStorage, p, viewport))]
    /\ resetPending' = FALSE
    /\ localStorage' = afterRegistration(localStorage, viewport)
    /\ lastEvent' = Event("initialize", "none", <<>>, "none", TRUE)
    /\ UNCHANGED << viewport, gesture, activeEdges, timerVars,
                    isModifierKeyHeld, nEvents, dragHist, finalGeom, bursts, timerWrites >>


(***************************************************************************)
(* Modifier key listeners (setupModifierKeyListeners).                     *)
(***************************************************************************)
\* the keydown listener
keydown(ctrlKey) ==
    IF ctrlKey /\ ~isModifierKeyHeld
    THEN /\ isModifierKeyHeld' = TRUE
         /\ bodyClasses' = bodyClasses \cup {"drag-mode-active"}
    ELSE UNCHANGED keyVars

\* the keyup listener
keyup(ctrlKey) ==
    IF ~ctrlKey /\ isModifierKeyHeld
    THEN /\ isModifierKeyHeld' = FALSE
         /\ bodyClasses' = bodyClasses \ {"drag-mode-active"}
    ELSE UNCHANGED keyVars

\* a blur listener that leaves the flag alone
blurIgnored == UNCHANGED keyVars

\* the blur listener of the window
blur ==
    IF isModifierKeyHeld
    THEN /\ isModifierKeyHeld' = FALSE
         /\ bodyClasses' = bodyClasses \ {"drag-mode-active"}
    ELSE UNCHANGED keyVars

\* what a key or focus event leaves alone
keyEventFrame ==
    UNCHANGED << page, viewport, resetPending, localStorage, cacheVars, domVars, gesture,
                 activeEdges, timerVars, keyListeners, nEvents, preDragZ, dragHist,
                 finalGeom, bursts, timerWrites >>

KeyDown(ctrlKey) ==
    /\ keyListeners > 0
    /\ keydown(ctrlKey)
    /\ keyEventFrame
    /\ UNCHANGED lastEvent

KeyUp(ctrlKey) ==
    /\ keyListeners > 0
    /\ keyup(ctrlKey)
    /\ keyEventFrame
    /\ UNCHANGED lastEvent

WindowBlur ==
    /\ keyListeners > 0
    /\ blur
    /\ keyEventFrame
    /\ UNCHANGED lastEvent

(***************************************************************************)
(* debounceSave: one shared timer.  The timeout's closure keeps the widget *)
(* id and the reference of the position object it was called with.         *)
(***************************************************************************)
debounceSaveKeepsPending(widgetId, position) ==
    /\ timers' = timers \cup
                   {[id |-> nextTimerId, widgetId |-> widgetId, position |-> position]}
    /\ saveTimeout' = nextTimerId
    /\ nextTimerId' = nextTimerId + 1

debounceSave(widgetId, position) ==
    /\ timers' = {t \in timers : t.id # saveTimeout} \cup
                   {[id |-> nextTimerId, widgetId |-> widgetId, position |-> position]}
    /\ saveTimeout' = nextTimerId
    /\ nextTimerId' = nextTimerId + 1

\* history kept at every gesture end
GestureEndHistory(p) ==
    /\ finalGeom' = [finalGeom EXCEPT ![p] = [set |-> TRUE, g |-> heap[widgetPositions[p]]]]
    /\ bursts' = IF timers = {} THEN bursts + 1 ELSE bursts

(***************************************************************************)
(* Drag machine.  The InteractEvent handed to the listeners has the        *)
(* container as its target (the handlers read it as the container); origin *)
(* is the element the pointer went down on.                                *)
(***************************************************************************)
eventTarget(origin) == "container"

isDragHandle(p, origin) ==
    /\ dragHandleOf(p) # "null"
    /\ \/ eventTarget(origin) = dragHandleOf(p)
       \/ contains(dragHandleOf(p), eventTarget(origin))

\* the start listener lets the drag begin
startAlwaysAllowed(p, origin) == TRUE
startOnlyFromHandle(p, origin) == isDragHandle(p, origin)

startAllowed(p, origin) == isModifierKeyHeld \/ isDragHandle(p, origin)

onDragStart(p) ==
    /\ classList' = [classList EXCEPT ![p] = @ \cup {"dragging"}]
    /\ style' = [style EXCEPT ![p].zIndex = ZNum(FRONT_Z_INDEX)]

\* a pointer goes down on `origin` in p's drag zone and starts to move
DragStart(p, origin) ==
    /\ page = "active"
    /\ "drag" \in attached[p]
    /\ gesture[p] = "idle"
    /\ nEvents < MaxEvents
    /\ IF ignoreFrom(origin)
       THEN \* interact.js prepares no action: no listener runs
            /\ lastEvent' = Event("dragIgnored", p, <<origin, isModifierKeyHeld>>, "none", TRUE)
            /\ UNCHANGED << classList, style, gesture, nEvents, preDragZ, dragHist >>
       ELSE IF ~startAllowed(p, origin)
       THEN \* event.interaction.stop(); return
            /\ lastEvent' = Event("dragRejected", p, <<origin, isModifierKeyHeld>>, "none", TRUE)
            /\ UNCHANGED << classList, style, gesture, nEvents, preDragZ, dragHist >>
       ELSE /\ onDragStart(p)
            /\ gesture' = [gesture EXCEPT ![p] = "drag"]
            /\ nEvents' = nEvents + 1
            /\ preDragZ' = [preDragZ EXCEPT ![p] = style[p].zIndex]
            /\ dragFrom' = [dragFrom EXCEPT ![p] = [set |-> TRUE, g |-> heap[widgetPositions[p]]]]
            /\ dragSum' = [dragSum EXCEPT ![p] = <<0, 0>>]
            /\ lastEvent' = Event("dragStart", p, <<origin, isModifierKeyHeld>>, callHook(p, "onDragStart"), TRUE)
    /\ UNCHANGED << page, viewport, resetPending, localStorage, cacheVars, resizeHandles, attached,
                    activeEdges, timerVars, keyVars, keyListeners, finalGeom,
                    bursts, timerWrites >>

DragDeltas == { <<40, -10>>, <<-60, 25>> }

\* onDragMove with the position kept inside the viewport's top-left corner
onDragMoveClamped(p, dx, dy) ==
    LET ref == widgetPositions[p]
        position == [heap[ref] EXCEPT !.x = Max(0, @ + dx), !.y = Max(0, @ + dy)]
    IN /\ heap' = [heap EXCEPT ![ref] = position]
       /\ style' = [style EXCEPT ![p].x = position.x, ![p].y = position.y]
       /\ UNCHANGED widgetPositions

\* onDragMove taking the z-index of the position from the element in front
onDragMoveInFront(p, dx, dy) ==
    LET ref == widgetPositions[p]
        position == [heap[ref] EXCEPT !.x = @ + dx, !.y = @ + dy, !.zIndex = FRONT_Z_INDEX]
    IN /\ heap' = [heap EXCEPT ![ref] = position]
       /\ style' = [style EXCEPT ![p].x = position.x, ![p].y = position.y]
       /\ UNCHANGED widgetPositions

\* onDragMove applying the delta only while free-drag mode is on
onDragMoveWhileHeld(p, dx, dy) ==
    LET ref == widgetPositions[p]
        position == [heap[ref] EXCEPT !.x = @ + dx, !.y = @ + dy]
    IN IF isModifierKeyHeld
       THEN /\ heap' = [heap EXCEPT ![ref] = position]
            /\ style' = [style EXCEPT ![p].x = position.x, ![p].y = position.y]
            /\ UNCHANGED widgetPositions
       ELSE UNCHANGED << heap, style, widgetPositions >>

onDragMove(p, dx, dy) ==
    LET ref == widgetPositions[p]
        position == [heap[ref] EXCEPT !.x = @ + dx, !.y = @ + dy]
    IN /\ heap' = [heap EXCEPT ![ref] = position]
       /\ style' = [style EXCEPT ![p].x = position.x, ![p].y = position.y]
       /\ UNCHANGED widgetPositions

DragMove(p, d) ==
    /\ page = "active"
    /\ gesture[p] = "drag"
    /\ nEvents < MaxEvents
    /\ onDragMove(p, d[1], d[2])
    /\ nEvents' = nEvents + 1
    /\ dragSum' = [dragSum EXCEPT ![p] = <<@[1] + d[1], @[2] + d[2]>>]
    /\ lastEvent' = Event("dragMove", p, d, "none", TRUE)
    /\ UNCHANGED << page, viewport, resetPending, localStorage, classList, resizeHandles, attached,
                    gesture, activeEdges, timerVars, keyVars, keyListeners,
                    preDragZ, dragFrom, finalGeom, bursts, timerWrites >>

\* container.style.zIndex = position.zIndex || 'auto'
zIndexKeptInFront(position) == ZNum(FRONT_Z_INDEX)

restoredZIndex(position) == zIndexOrAuto(position)

\* onDragEnd calling the hook first: a hook that throws leaves the rest undone
onDragEndHookFirst(p, outcome) ==
    IF outcome = "throws"
    THEN UNCHANGED << classList, style, timerVars >>
    ELSE LET ref == widgetPositions[p] IN
         /\ classList' = [classList EXCEPT ![p] = @ \ {"dragging"}]
         /\ style' = [style EXCEPT ![p].zIndex = restoredZIndex(heap[ref])]
         /\ debounceSave(p, ref)

\* the call of config.onDragEnd is the last statement: whatever its outcome,
\* the statements before it have run and none is left to skip
onDragEnd(p, outcome) ==
    LET ref == widgetPositions[p] IN
    /\ classList' = [classList EXCEPT ![p] = @ \ {"dragging"}]
    /\ style' = [style EXCEPT ![p].zIndex = restoredZIndex(heap[ref])]
    /\ debounceSave(p, ref)

DragEnd(p, outcome) ==
    /\ page = "active"
    /\ gesture[p] = "drag"
    /\ onDragEnd(p, outcome)
    /\ GestureEndHistory(p)
    /\ gesture' = [gesture EXCEPT ![p] = "idle"]
    /\ lastEvent' = Event("dragEnd", p, <<>>, callHook(p, "onDragEnd"), outcome # "throws")
    /\ UNCHANGED << page, viewport, resetPending, localStorage, cacheVars, resizeHandles, attached,
                    activeEdges, keyVars, keyListeners, nEvents, preDragZ, timerWrites >>
    /\ dragFrom' = [dragFrom EXCEPT ![p] = NoGeom]
    /\ dragSum' = [dragSum EXCEPT ![p] = <<0, 0>>]


(***************************************************************************)
(* Resize machine.  Only the right and bottom edges can be enabled; the    *)
(* restrictSize modifier keeps the edges being moved at the minimum size.  *)
(***************************************************************************)
onResizeStart(p) ==
    classList' = [classList EXCEPT ![p] = @ \cup {"resizing"}]

\* a pointer goes down within the margin of the enabled edges `edges`
ResizeStart(p, edges) ==
    /\ page = "active"
    /\ "resize" \in attached[p]
    /\ gesture[p] = "idle"
    /\ nEvents < MaxEvents
    /\ edges # {}
    /\ edges \subseteq resizeEdges(getLayoutConfig(p))
    /\ onResizeStart(p)
    /\ gesture' = [gesture EXCEPT ![p] = "resize"]
    /\ activeEdges' = [activeEdges EXCEPT ![p] = edges]
    /\ nEvents' = nEvents + 1
    /\ lastEvent' = Event("resizeStart", p, <<>>, callHook(p, "onResizeStart"), TRUE)
    /\ UNCHANGED << page, viewport, resetPending, localStorage, cacheVars, style, resizeHandles,
                    attached, timerVars, keyVars, keyListeners, preDragZ, dragHist,
                    finalGeom, bursts, timerWrites >>

ReqWidths == {250, 500}
ReqHeights == {150, 400}

\* the size the pointer asks for: an edge that is not being moved keeps the
\* element's current extent
requestedSize(p, w, h) ==
    [ width  |-> IF "right" \in activeEdges[p] THEN w ELSE style[p].width,
      height |-> IF "bottom" \in activeEdges[p] THEN h ELSE style[p].height ]

\* event.rect after the restrictSize modifier, without the min
unrestrictedRect(p, req) == req

\* event.rect after the restrictSize modifier
restrictSize(p, req) ==
    LET min == restrictSizeMin(getLayoutConfig(p)) IN
    [ width  |-> IF "right" \in activeEdges[p] THEN Max(req.width, min.width) ELSE req.width,
      height |-> IF "bottom" \in activeEdges[p] THEN Max(req.height, min.height) ELSE req.height ]

\* event.deltaRect.left / top: the left and top edges are never enabled
deltaRectLeft == 0
deltaRectTop == 0

\* the call of config.onResize is the last statement
onResizeMove(p, rect, outcome) ==
    LET ref == widgetPositions[p]
        position == [heap[ref] EXCEPT !.width = rect.width, !.height = rect.height,
                                      !.x = @ + deltaRectLeft, !.y = @ + deltaRectTop]
    IN /\ heap' = [heap EXCEPT ![ref] = position]
       /\ style' = [style EXCEPT ![p].width = position.width, ![p].height = position.height,
                                 ![p].x = position.x, ![p].y = position.y]
       /\ UNCHANGED widgetPositions

ResizeMove(p, w, h, outcome) ==
    /\ page = "active"
    /\ gesture[p] = "resize"
    /\ nEvents < MaxEvents
    /\ onResizeMove(p, restrictSize(p, requestedSize(p, w, h)), outcome)
    /\ nEvents' = nEvents + 1
    /\ lastEvent' = Event("resizeMove", p,
                          <<requestedSize(p, w, h).width, requestedSize(p, w, h).height>>,
                          callHook(p, "onResize"), outcome # "throws")
    /\ UNCHANGED << page, viewport, resetPending, localStorage, classList, resizeHandles, attached,
                    gesture, activeEdges, timerVars, keyVars, keyListeners,
                    preDragZ, dragHist, finalGeom, bursts, timerWrites >>

\* the call of config.onResizeEnd is the last statement
onResizeEnd(p, outcome) ==
    /\ classList' = [classList EXCEPT ![p] = @ \ {"resizing"}]
    /\ debounceSave(p, widgetPositions[p])

ResizeEnd(p, outcome) ==
    /\ page = "active"
    /\ gesture[p] = "resize"
    /\ onResizeEnd(p, outcome)
    /\ GestureEndHistory(p)
    /\ gesture' = [gesture EXCEPT ![p] = "idle"]
    /\ activeEdges' = [activeEdges EXCEPT ![p] = {}]
    /\ lastEvent' = Event("resizeEnd", p, <<>>, callHook(p, "onResizeEnd"), outcome # "throws")
    /\ UNCHANGED << page, viewport, resetPending, localStorage, cacheVars, style, resizeHandles,
                    attached, keyVars, keyListeners, nEvents, preDragZ, dragHist, timerWrites >>

(***************************************************************************)
(* The save timer fires: saveWidgetLayout(widgetId, position) with the     *)
(* position object the closure holds, as it is now.  quotaOk is whether    *)
(* localStorage.setItem succeeds.                                          *)
(***************************************************************************)
SaveTimerFires(t, quotaOk) ==
    /\ t \in timers
    /\ timers' = timers \ {t}
    /\ localStorage' = saveWidgetLayout(localStorage, t.widgetId, heap[t.position],
                                        viewport, quotaOk)
    /\ timerWrites' = timerWrites + 1
    /\ lastEvent' = Event("saveFired", t.widgetId, <<t.id>>, "none", quotaOk)
    /\ UNCHANGED << page, viewport, resetPending, cacheVars, domVars, gesture, activeEdges,
                    saveTimeout, nextTimerId, keyVars, keyListeners, nEvents, preDragZ, dragHist,
                    finalGeom, bursts >>

(***************************************************************************)
(* Page teardown: the document and its script state are discarded;         *)
(* localStorage survives.  The next load may find another viewport.        *)
(***************************************************************************)
FreshPage(vp) ==
    /\ page' = "loading"
    /\ viewport' = vp
    /\ widgetPositions' = EmptyMap
    /\ heap' = EmptyMap
    /\ style' = [p \in Panels |-> Unstyled]
    /\ classList' = [p \in Panels |-> {}]
    /\ resizeHandles' = {}
    /\ attached' = [p \in Panels |-> {}]
    /\ gesture' = [p \in Panels |-> "idle"]
    /\ activeEdges' = [p \in Panels |-> {}]
    /\ saveTimeout' = 0
    /\ timers' = {}
    /\ nextTimerId' = 1
    /\ isModifierKeyHeld' = FALSE
    /\ bodyClasses' = {}
    /\ keyListeners' = 0
    /\ preDragZ' = [p \in Panels |-> ZAuto]
    /\ dragFrom' = [p \in Panels |-> NoGeom]
    /\ dragSum' = [p \in Panels |-> <<0, 0>>]
    /\ finalGeom' = [p \in Panels |-> NoGeom]
    /\ bursts' = 0
    /\ timerWrites' = 0
    /\ nEvents' = nEvents + 1

\* the user reloads the tab (or opens a new one)
Reload(vp) ==
    /\ page = "active"
    /\ nEvents < MaxEvents
    /\ FreshPage(vp)
    /\ lastEvent' = Event("reload", "none", <<>>, "none", TRUE)
    /\ UNCHANGED << localStorage, resetPending >>

\* resetLayout: clearAllLayouts(); widgetPositions.clear(); location.reload().
\* reload() only starts the navigation: the handler returns and the document,
\* with its timers, lives on until the navigation commits (Unload).  The
\* position objects stay reachable from the closures of the pending timers.
ResetLayout ==
    /\ page = "active"
    /\ nEvents < MaxEvents
    /\ localStorage' = clearAllLayouts(localStorage)
    /\ widgetPositions' = EmptyMap
    /\ page' = "unloading"
    /\ resetPending' = TRUE
    /\ lastEvent' = Event("reset", "none", <<>>, "none", TRUE)
    /\ UNCHANGED << viewport, heap, domVars, gesture, activeEdges, timerVars, keyVars, keyListeners,
                    nEvents, preDragZ, dragHist, finalGeom, bursts, timerWrites >>

\* the navigation resetLayout started commits: the document is discarded
Unload ==
    /\ page = "unloading"
    /\ FreshPage(viewport)
    /\ lastEvent' = Event("unload", "none", <<>>, "none", TRUE)
    /\ UNCHANGED << localStorage, resetPending >>

Next ==
    \/ InitializeCustomLayout
    \/ \E ctrlKey \in BOOLEAN : KeyDown(ctrlKey)
    \/ \E ctrlKey \in BOOLEAN : KeyUp(ctrlKey)
    \/ WindowBlur
    \/ \E p \in Panels, origin \in Elements : DragStart(p, origin)
    \/ \E p \in Panels, d \in DragDeltas : DragMove(p, d)
    \/ \E p \in Panels : \E outcome \in HookOutcomes(p, "onDragEnd") : DragEnd(p, outcome)
    \/ \E p \in Panels, edges \in SUBSET {"right", "bottom"} : ResizeStart(p, edges)
    \/ \E p \in Panels, w \in ReqWidths, h \in ReqHeights :
           \E outcome \in HookOutcomes(p, "onResize") : ResizeMove(p, w, h, outcome)
    \/ \E p \in Panels : \E outcome \in HookOutcomes(p, "onResizeEnd") : ResizeEnd(p, outcome)
    \/ \E t \in timers, quotaOk \in BOOLEAN : SaveTimerFires(t, quotaOk)
    \/ \E vp \in Viewports : Reload(vp)
    \/ ResetLayout
    \/ Unload

Spec == Init /\ [][Next]_vars


(***************************************************************************)
(* The store called directly.  The page loads over whatever the item under *)
(* LAYOUT_STORAGE_KEY holds (a document of this or another release, a      *)
(* snapshot someone imported, text some other script left there) and the   *)
(* host calls the exported functions of layoutStorage.js.                  *)
(***************************************************************************)
StoredGeometries ==
    { [x |-> 700, y |-> 40, width |-> 500, height |-> 300, zIndex |-> 2],
      [x |-> 12, y |-> 900, width |-> 320, height |-> 280, zIndex |-> 7] }

\* the layouts maps: any set of panel ids, any of the geometries
LayoutMaps == UNION { [S -> StoredGeometries] : S \in SUBSET Panels }

\* the layouts maps of the documents found in storage or imported: each panel
\* with the geometry a previous session left it
storedGeometryOf(p) ==
    IF p = "clock"
    THEN [x |-> 700, y |-> 40, width |-> 500, height |-> 300, zIndex |-> 2]
    ELSE [x |-> 12, y |-> 900, width |-> 320, height |-> 280, zIndex |-> 7]
SnapshotMaps == { m \in LayoutMaps : \A p \in DOMAIN m : m[p] = storedGeometryOf(p) }

StoredVersions == {0, STORAGE_VERSION, STORAGE_VERSION + 1}
\* the breakpoint member a document of version v carries
StoredBreakpoints(v) == IF v = STORAGE_VERSION THEN {"mobile", "desktop"} ELSE {"desktop"}
LayoutsMembers == SnapshotMaps \cup {JsonNull}

\* the texts that parse to an object, by the members the object has
JsonDocs ==
    { [kind |-> "json"] } \cup
    { [kind |-> "json", layouts |-> l] : l \in LayoutsMembers } \cup
    UNION { { [kind |-> "json", version |-> v, breakpoint |-> b] :
                  b \in StoredBreakpoints(v) } : v \in StoredVersions } \cup
    UNION { { [kind |-> "json", version |-> v, breakpoint |-> b, layouts |-> l] :
                  b \in StoredBreakpoints(v), l \in LayoutsMembers } : v \in StoredVersions }

JsonTexts == JsonDocs \cup { [kind |-> "garbage"] }
StoredItems == JsonTexts \cup { NoItem }

ApiInit ==
    /\ viewport \in Viewports
    /\ localStorage \in StoredItems
    /\ LoadedModule

\* what a call of a store function leaves alone
storeCallFrame ==
    UNCHANGED << page, viewport, resetPending, cacheVars, domVars, gesture, activeEdges,
                 timerVars, keyVars, keyListeners, nEvents, preDragZ, dragHist, finalGeom, bursts,
                 timerWrites >>

LoadLayoutsCall ==
    /\ lastEvent' = Event("loadLayouts", "none", <<loadLayouts(localStorage)>>, "none", TRUE)
    /\ UNCHANGED localStorage
    /\ storeCallFrame

SaveLayoutsCall(layouts, quotaOk) ==
    /\ localStorage' = saveLayouts(localStorage, layouts, viewport, quotaOk)
    /\ lastEvent' = Event("saveLayouts", "none", <<layouts>>, "none", quotaOk)
    /\ storeCallFrame

ImportLayoutsCall(jsonString, quotaOk) ==
    /\ localStorage' = importLayouts(localStorage, jsonString, quotaOk).item
    /\ lastEvent' = Event("importLayouts", "none", <<jsonString, quotaOk>>, "none",
                          importLayouts(localStorage, jsonString, quotaOk).result)
    /\ storeCallFrame

LoadWidgetLayoutCall(widgetId) ==
    /\ lastEvent' = Event("loadWidgetLayout", widgetId,
                          <<loadWidgetLayout(localStorage, widgetId)>>, "none", TRUE)
    /\ UNCHANGED localStorage
    /\ storeCallFrame

ExportLayoutsCall ==
    /\ lastEvent' = Event("exportLayouts", "none", <<exportLayouts(localStorage)>>, "none", TRUE)
    /\ UNCHANGED localStorage
    /\ storeCallFrame

RemoveWidgetLayoutCall(widgetId, quotaOk) ==
    /\ localStorage' = removeWidgetLayout(localStorage, widgetId, viewport, quotaOk)
    /\ lastEvent' = Event("removeWidgetLayout", widgetId, <<>>, "none", quotaOk)
    /\ storeCallFrame

ClearAllLayoutsCall ==
    /\ localStorage' = clearAllLayouts(localStorage)
    /\ lastEvent' = Event("clearAllLayouts", "none", <<>>, "none", TRUE)
    /\ storeCallFrame

SaveWidgetLayoutCall(widgetId, layout, quotaOk) ==
    /\ localStorage' = saveWidgetLayout(localStorage, widgetId, layout, viewport, quotaOk)
    /\ lastEvent' = Event("saveWidgetLayout", widgetId, <<layout>>, "none", quotaOk)
    /\ storeCallFrame

ApiNext ==
    \/ InitializeCustomLayout
    \/ LoadLayoutsCall
    \/ \E widgetId \in Panels : LoadWidgetLayoutCall(widgetId)
    \/ ExportLayoutsCall
    \/ \E widgetId \in Panels, quotaOk \in BOOLEAN : RemoveWidgetLayoutCall(widgetId, quotaOk)
    \/ ClearAllLayoutsCall
    \/ \E widgetId \in Panels, layout \in StoredGeometries, quotaOk \in BOOLEAN :
           SaveWidgetLayoutCall(widgetId, layout, quotaOk)
    \/ \E layouts \in LayoutMaps, quotaOk \in BOOLEAN : SaveLayoutsCall(layouts, quotaOk)
    \/ \E jsonString \in JsonTexts, quotaOk \in BOOLEAN : ImportLayoutsCall(jsonString, quotaOk)

ApiSpec == ApiInit /\ [][ApiNext]_vars


(***************************************************************************)
(* The free-drag mode over the life of a page: the key and focus events    *)
(* as the listeners see them, the drag starts they gate, and the ways the  *)
(* engine is switched off (disableCustomLayout, a reload).                 *)
(***************************************************************************)
KeyDownSeen(ctrlKey) ==
    /\ keyListeners > 0
    /\ keydown(ctrlKey)
    /\ keyEventFrame
    /\ lastEvent' = Event("keydown", "none", <<ctrlKey>>, "none", TRUE)

KeyUpSeen(ctrlKey) ==
    /\ keyListeners > 0
    /\ keyup(ctrlKey)
    /\ keyEventFrame
    /\ lastEvent' = Event("keyup", "none", <<ctrlKey>>, "none", TRUE)

WindowBlurSeen ==
    /\ keyListeners > 0
    /\ blur
    /\ keyEventFrame
    /\ lastEvent' = Event("blur", "none", <<>>, "none", TRUE)

\* disableCustomLayout: the body class goes, interact(widget).unset() detaches
\* every machine (an interaction in progress is stopped, no end event is
\* fired), location.reload() starts the navigation.  The key listeners and
\* the flag are left as they are.
DisableCustomLayout ==
    /\ page = "active"
    /\ nEvents < MaxEvents
    /\ bodyClasses' = bodyClasses \ {"custom-layout-mode"}
    /\ attached' = [p \in Panels |-> {}]
    /\ gesture' = [p \in Panels |-> "idle"]
    /\ activeEdges' = [p \in Panels |-> {}]
    /\ page' = "unloading"
    /\ lastEvent' = Event("disable", "none", <<>>, "none", TRUE)
    /\ UNCHANGED << viewport, resetPending, localStorage, cacheVars, style, classList,
                    resizeHandles, timerVars, isModifierKeyHeld, keyListeners, nEvents,
                    preDragZ, dragHist, finalGeom, bursts, timerWrites >>

ModeNext ==
    \/ InitializeCustomLayout
    \/ \E ctrlKey \in BOOLEAN : KeyDownSeen(ctrlKey)
    \/ \E ctrlKey \in BOOLEAN : KeyUpSeen(ctrlKey)
    \/ WindowBlurSeen
    \/ \E p \in Panels, origin \in Elements : DragStart(p, origin)
    \/ \E p \in Panels : \E outcome \in HookOutcomes(p, "onDragEnd") : DragEnd(p, outcome)
    \/ DisableCustomLayout
    \/ Unload
    \/ \E vp \in Viewports : Reload(vp)

ModeSpec == Init /\ [][ModeNext]_vars


(***************************************************************************)
(* The Geometry Resolver called directly, over specs and reference lengths *)
(* for which the percentage is a whole number of pixels.                   *)
(***************************************************************************)
SpecPercents == {0, 5, 10, 55, 80, 100}
SpecPixels == {0, 50, 150, 560}
ReferenceLengths == {360, 1080, 1920}
LengthSpecs == { Pct(n) : n \in SpecPercents } \cup { Px(n) : n \in SpecPixels }

weatherWidget ==
    [ defaultPosition |-> [x |-> Pct(55), y |-> Px(50)],
      defaultSize     |-> [width |-> Px(560), height |-> Px(380)],
      minSize         |-> [width |-> 450, height |-> 320],
      resizable       |-> [kind |-> "bool", value |-> TRUE],
      draggable       |-> TRUE,
      dragHandle      |-> ".widget-header",
      zIndex          |-> 3 ]

\* a layout that sets no zIndex
layoutWithoutZIndex ==
    [ defaultPosition |-> [x |-> Pct(10), y |-> Pct(55)],
      defaultSize     |-> [width |-> Pct(80), height |-> Px(150)],
      minSize         |-> [width |-> 200, height |-> 150],
      resizable       |-> [kind |-> "bool", value |-> TRUE],
      draggable       |-> TRUE,
      dragHandle      |-> ".widget-header" ]

ResolverConfigs == { clockWidget, calendarWidget, weatherWidget, layoutWithoutZIndex }

\* what a call of a resolver function leaves alone
resolverCallFrame ==
    UNCHANGED << page, viewport, resetPending, localStorage, cacheVars, domVars, gesture,
                 activeEdges, timerVars, keyVars, keyListeners, nEvents, preDragZ,
                 dragHist, finalGeom, bursts, timerWrites >>

ParseValueCall(value, reference) ==
    /\ lastEvent' = Event("parseValue", "none",
                          <<value, reference, parseValue(value, reference)>>, "none", TRUE)
    /\ resolverCallFrame

GetDefaultPositionCall(config) ==
    /\ lastEvent' = Event("getDefaultPosition", "none",
                          <<config, getDefaultPosition(config, viewport)>>, "none", TRUE)
    /\ resolverCallFrame

\* the draggable / resizable settings a layout can carry
ResizableSettings ==
    { [kind |-> "bool", value |-> b] : b \in BOOLEAN } \cup
    { [kind |-> "object", width |-> w, height |-> h] : w \in BOOLEAN, h \in BOOLEAN }
RegistrationConfigs ==
    { [clockWidget EXCEPT !.draggable = d, !.resizable = r] :
          d \in BOOLEAN, r \in ResizableSettings }

\* initializeWidget for a panel with that layout: the machines it attaches,
\* whether addLayoutControls appends the 'resize-handle' element, and the
\* edges the resize machine can move
InitializeWidgetCall(config) ==
    /\ lastEvent' = Event("initializeWidget", "none",
                          <<config, machinesOf(config), resizableTruthy(config),
                            resizeEdges(config)>>, "none", TRUE)
    /\ resolverCallFrame

ResolverNext ==
    \/ InitializeCustomLayout
    \/ \E config \in RegistrationConfigs : InitializeWidgetCall(config)
    \/ \E value \in LengthSpecs, reference \in ReferenceLengths :
           ParseValueCall(value, reference)
    \/ \E config \in ResolverConfigs : GetDefaultPositionCall(config)

ResolverSpec == Init /\ [][ResolverNext]_vars


(***************************************************************************)
(* The store written while the window is resized: window.innerWidth is     *)
(* read anew by every saveLayouts, and the user can resize the window      *)
(* between two writes.  The widths are those around the two limits.        *)
(***************************************************************************)
ResizedViewports ==
    Viewports \cup { [width |-> w, height |-> 1080] : w \in {767, 768, 1023, 1024} }

WindowResize(vp) ==
    /\ vp # viewport
    /\ viewport' = vp
    /\ lastEvent' = Event("windowResize", "none", <<>>, "none", TRUE)
    /\ UNCHANGED << page, resetPending, localStorage, cacheVars, domVars, gesture,
                    activeEdges, timerVars, keyVars, keyListeners, nEvents, preDragZ,
                    dragHist, finalGeom, bursts, timerWrites >>

BreakpointNext ==
    \/ \E vp \in ResizedViewports : WindowResize(vp)
    \/ \E layouts \in LayoutMaps, quotaOk \in BOOLEAN : SaveLayoutsCall(layouts, quotaOk)

BreakpointSpec == Init /\ [][BreakpointNext]_vars


(***************************************************************************)
(* Properties.                                                             *)
(***************************************************************************)
\* the geometry map the in-memory cache holds
cacheMap == [p \in DOMAIN widgetPositions |-> heap[widgetPositions[p]]]

SaveJustWritten == lastEvent.type = "saveFired" /\ lastEvent.ok
AllIdle == \A p \in Panels : gesture[p] = "idle"

\* a drag start attempt (accepted, rejected by the start listener, or ignored)
DragAttemptTypes == {"dragStart", "dragRejected", "dragIgnored"}
IsDragAttempt(e) == e.type \in DragAttemptTypes
AttemptOrigin(e) == e.arg[1]
AttemptModifier(e) == e.arg[2]

\* the elements of the drag handle region of p: the handle and its descendants
HandleRegion(p) ==
    IF getLayoutConfig(p).dragHandle = "null" THEN {}
    ELSE {"header", "headerTitle", "headerButton"}

\* C1: whenever the debounced save timer fires and the write succeeds, the
\* persisted layouts map equals the whole in-memory geometry cache.
C1_SaveWritesWholeCache ==
    SaveJustWritten => loadLayouts(localStorage) = Layouts(cacheMap)

\* C2: when the save fires after gestures on different panels ended within
\* one debounce window (no gesture in progress), the persisted document holds
\* the final geometry of every panel whose gesture ended: none is lost.
C2_NoCompletedAdjustmentLost ==
    (SaveJustWritten /\ AllIdle) =>
        \A p \in Panels :
            finalGeom[p].set =>
                loadWidgetLayout(localStorage, p) = [found |-> TRUE, layout |-> finalGeom[p].g]

\* C3: one save timer is shared by all panels and at most one save is pending;
\* every gesture end cancels the pending timer and arms a new one, so each run
\* of gesture ends that falls within the debounce window yields exactly one
\* storage write, made by the timer the last of them armed.
C3_SingleTimerOneWritePerBurst ==
    /\ Cardinality(timers) <= 1
    /\ \A t \in timers : t.id = saveTimeout
    /\ timerWrites + Cardinality(timers) = bursts
    /\ lastEvent.type \in {"dragEnd", "resizeEnd"} =>
          /\ saveTimeout = nextTimerId - 1
          /\ \E t \in timers : t.id = saveTimeout /\ t.widgetId = lastEvent.panel
    /\ lastEvent.type = "saveFired" => lastEvent.arg[1] = nextTimerId - 1

\* C3 witness: two gesture ends fell in one window and the one write was made
C3_Witness ==
    /\ lastEvent.type = "saveFired"
    /\ nextTimerId = 3
    /\ bursts = 1
    /\ timerWrites = 1

\* C4: when the save timer fires after a panel's gesture ended (and no
\* further gesture ended) and storage works, the persisted entry of that panel
\* equals the panel's geometry at that gesture end.
C4_PersistedEqualsGestureEndGeometry ==
    SaveJustWritten =>
        /\ finalGeom[lastEvent.panel].set
        /\ loadWidgetLayout(localStorage, lastEvent.panel) =
               [found |-> TRUE, layout |-> finalGeom[lastEvent.panel].g]

\* C5: with free-drag mode off, a drag start whose pointer went down on the
\* drag handle, or on a descendant of it that is not an interactive control,
\* is accepted: the panel is dragging.
C5_HandleStartAccepted ==
    ( /\ IsDragAttempt(lastEvent)
      /\ ~AttemptModifier(lastEvent)
      /\ AttemptOrigin(lastEvent) \in HandleRegion(lastEvent.panel) \ InteractiveElements ) =>
        /\ lastEvent.type = "dragStart"
        /\ gesture[lastEvent.panel] = "drag"
        /\ "dragging" \in classList[lastEvent.panel]

C7_RejectedStartIsNoOp ==
    [][ ( /\ lastEvent' # lastEvent
          /\ IsDragAttempt(lastEvent')
          /\ ~AttemptModifier(lastEvent')
          /\ AttemptOrigin(lastEvent') \notin HandleRegion(lastEvent'.panel) ) =>
            /\ UNCHANGED << cacheVars, domVars, gesture, activeEdges, timerVars,
                            localStorage, keyVars, page >>
            /\ lastEvent'.hook = "none" ]_vars

\* C7 witness: a start from the body of a panel with a handle was rejected
C7_Witness ==
    /\ lastEvent.type = "dragRejected"
    /\ lastEvent.panel = "calendar"
    /\ ~AttemptModifier(lastEvent)
    /\ AttemptOrigin(lastEvent) = "container"

\* C8: in every reachable state every registered panel's cached width and
\* height are at least its minSize width and height.
C8_MinSizeInvariant ==
    \A p \in DOMAIN widgetPositions :
        /\ heap[widgetPositions[p]].width >= getLayoutConfig(p).minSize.width
        /\ heap[widgetPositions[p]].height >= getLayoutConfig(p).minSize.height

\* C9: a resize move requesting (w, h) leaves the cached and the rendered size
\* at (max(w, minSize.width), max(h, minSize.height)), with no upper bound.
C9_ResizeClamp ==
    lastEvent.type = "resizeMove" =>
        LET p == lastEvent.panel
            w == lastEvent.arg[1]
            h == lastEvent.arg[2]
            min == getLayoutConfig(p).minSize
        IN /\ heap[widgetPositions[p]].width = Max(w, min.width)
           /\ heap[widgetPositions[p]].height = Max(h, min.height)
           /\ style[p].width = Max(w, min.width)
           /\ style[p].height = Max(h, min.height)

\* C9 witness: a request below the minimum width came out at the minimum,
\* and one above it was granted as asked
C9_Witness ==
    /\ lastEvent.type = "resizeMove"
    /\ lastEvent.panel = "calendar"
    /\ lastEvent.arg[1] < 300
    /\ lastEvent.arg[2] > 280
    /\ heap[widgetPositions["calendar"]].width = 300
    /\ heap[widgetPositions["calendar"]].height = lastEvent.arg[2]

\* C10: during an accepted drag the rendered z-index is the front sentinel and
\* the dragging marker is set; after the drag end the marker is cleared and
\* the rendered z-index is the one the panel had before the drag started.
C10_DragZOrder ==
    /\ \A p \in Panels :
          gesture[p] = "drag" =>
              /\ style[p].zIndex = ZNum(FRONT_Z_INDEX)
              /\ "dragging" \in classList[p]
    /\ lastEvent.type = "dragEnd" =>
          /\ "dragging" \notin classList[lastEvent.panel]
          /\ style[lastEvent.panel].zIndex = preDragZ[lastEvent.panel]

\* C10 witness: a panel restored from its persisted entry was dragged and released
C10_Witness ==
    /\ lastEvent.type = "dragEnd"
    /\ timerWrites = 0
    /\ loadWidgetLayout(localStorage, lastEvent.panel).found
    /\ style[lastEvent.panel].zIndex = preDragZ[lastEvent.panel]

\* the drag in progress on p has moved the cache by exactly the sum of its deltas
DragSumExact(p) ==
    LET position == heap[widgetPositions[p]]
        from == dragFrom[p].g
    IN /\ dragFrom[p].set
       /\ position.x = from.x + dragSum[p][1]
       /\ position.y = from.y + dragSum[p][2]
       /\ style[p].x = position.x
       /\ style[p].y = position.y
       /\ position.width = from.width
       /\ position.height = from.height
       /\ position.zIndex = from.zIndex
       /\ style[p].width = from.width
       /\ style[p].height = from.height

\* C11: in an accepted drag that started with the panel cached at (x, y), after
\* any sequence of moves the cached position is (x, y) plus the sum of the
\* deltas, unclamped; the rendered position equals the cached one after every
\* move; the cached width, height and zIndex are those of the drag start, and
\* the step that ends the drag leaves the cached geometry as the moves left it.
C11_DragMovesAddExactly ==
    /\ [](\A p \in Panels : (page = "active" /\ gesture[p] = "drag") => DragSumExact(p))
    /\ [][ \A p \in Panels :
              (gesture[p] = "drag" /\ gesture'[p] = "idle" /\ page' = "active") =>
                  /\ widgetPositions'[p] = widgetPositions[p]
                  /\ heap'[widgetPositions[p]] = heap[widgetPositions[p]]
                  /\ style'[p].x = style[p].x /\ style'[p].y = style[p].y ]_vars

\* C11 witness: two moves carried the clock past the left edge of the viewport
C11_Witness ==
    /\ gesture["clock"] = "drag"
    /\ lastEvent.type = "dragMove"
    /\ dragSum["clock"] = <<-120, 50>>
    /\ heap[widgetPositions["clock"]].x < 0

\* C12: after resetLayout, from any state (a save may be pending, a gesture in
\* progress), the store holds no document and the cache is empty until the
\* panels are registered again, and that registration gives every panel its
\* computed default geometry.
C12_ResetLeavesNothingBehind ==
    /\ [](resetPending => (localStorage = NoItem /\ widgetPositions = EmptyMap))
    /\ [][ (resetPending /\ page' = "active") =>
              \A p \in Panels :
                  /\ heap'[widgetPositions'[p]] =
                         getDefaultPosition(getLayoutConfig(p), viewport')
                  /\ style'[p] =
                         applyPosition(getDefaultPosition(getLayoutConfig(p), viewport')) ]_vars

\* the store holds a version-matching document with an entry for p
HasPersistedEntry(item, p) ==
    /\ item.kind = "json"
    /\ "version" \in DOMAIN item
    /\ item.version = STORAGE_VERSION
    /\ "layouts" \in DOMAIN item
    /\ item.layouts # JsonNull
    /\ p \in DOMAIN item.layouts

\* C13: at registration the geometry applied to the surface and put in the
\* cache is the persisted entry of the panel when the store holds a
\* version-matching document with an entry for it, whatever the viewport and
\* the recorded breakpoint, and the default computed for the viewport in every
\* other case (no document, unreadable, version mismatch, no entry).
C13_RegistrationGeometry ==
    lastEvent.type = "initialize" =>
        \A p \in Panels :
            LET expected == IF HasPersistedEntry(localStorage, p)
                            THEN localStorage.layouts[p]
                            ELSE getDefaultPosition(getLayoutConfig(p), viewport)
            IN /\ heap[widgetPositions[p]] = expected
               /\ style[p] = applyPosition(expected)

\* C13 witness: the document was saved on a desktop and holds the clock only;
\* on a phone the clock gets its entry and the calendar its default
C13_Witness ==
    /\ lastEvent.type = "initialize"
    /\ viewport.width = 360
    /\ HasPersistedEntry(localStorage, "clock")
    /\ ~HasPersistedEntry(localStorage, "calendar")
    /\ localStorage.breakpoint = "desktop"
    /\ heap[widgetPositions["clock"]].x = 700
    /\ heap[widgetPositions["calendar"]].x = 18

\* C14: after any sequence of keydown, keyup and blur events the flag is false
\* right after a window blur, it is true exactly when the body carries the
\* 'drag-mode-active' marker, and it only ever becomes true in a keydown that
\* has the modifier held.
C14_ModifierFlag ==
    /\ [](isModifierKeyHeld <=> "drag-mode-active" \in bodyClasses)
    /\ [](lastEvent.type = "blur" => ~isModifierKeyHeld)
    /\ [][ (~isModifierKeyHeld /\ isModifierKeyHeld') =>
              (lastEvent'.type = "keydown" /\ lastEvent'.arg[1]) ]_vars

\* C14 witness: the window lost the focus during a free drag of the panel
\* that has a handle, and the flag is off
C14_Witness ==
    /\ lastEvent.type = "blur"
    /\ ~isModifierKeyHeld
    /\ \E p \in Panels : gesture[p] = "drag" /\ dragHandleOf(p) # "null"

\* C15: the key listeners are installed once per activation whatever the
\* number of panels, never more than one set is installed, and once the
\* engine is not active (before activation, after deactivation) no listener is
\* installed and the flag is false.
C15_ListenersFollowActivation ==
    /\ keyListeners <= 1
    /\ page = "active" => keyListeners = 1
    /\ page # "active" => (keyListeners = 0 /\ ~isModifierKeyHeld)

\* C16: for every layouts map, saveLayouts(layouts) with a write that succeeds
\* followed by loadLayouts() returns a map equal to layouts, whatever the
\* item held before.
C16_SaveLoadRoundTrip ==
    (lastEvent.type = "saveLayouts" /\ lastEvent.ok) =>
        /\ loadLayouts(localStorage).kind = "layouts"
        /\ loadLayouts(localStorage).map = lastEvent.arg[1]

\* C16 witness: a map with both panels, at different geometries, saved on a phone
C16_Witness ==
    /\ lastEvent.type = "saveLayouts"
    /\ lastEvent.ok
    /\ DOMAIN lastEvent.arg[1] = Panels
    /\ lastEvent.arg[1]["clock"] # lastEvent.arg[1]["calendar"]
    /\ localStorage.breakpoint = "mobile"

\* the item is the text of an object whose version is the current one
VersionMatches(item) ==
    /\ item.kind = "json"
    /\ "version" \in DOMAIN item
    /\ item.version = STORAGE_VERSION

HasMember(jsonString, name) == jsonString.kind = "json" /\ name \in DOMAIN jsonString

\* C18 (as claimed): importLayouts(s) returns false and leaves the item as it
\* was when s does not parse or lacks the version or the layouts member, and
\* returns true and replaces the item with s for every s that has both.
C18_ImportAcceptsPresentFields ==
    [][ lastEvent'.type = "importLayouts" =>
          LET s == lastEvent'.arg[1] IN
          IF HasMember(s, "version") /\ HasMember(s, "layouts")
          THEN lastEvent'.ok /\ localStorage' = s
          ELSE ~lastEvent'.ok /\ localStorage' = localStorage ]_vars

\* C18 (amended): importLayouts(s) returns true and replaces the item with s
\* exactly when s parses to an object with a non-zero version member and a
\* non-null layouts member and the write succeeds; in every other case it
\* returns false and leaves the item as it was.
C18_ImportAcceptsTruthyFields ==
    [][ lastEvent'.type = "importLayouts" =>
          LET s == lastEvent'.arg[1]
              written == lastEvent'.arg[2]
          IN IF /\ HasMember(s, "version") /\ s.version # 0
                /\ HasMember(s, "layouts") /\ s.layouts # JsonNull
                /\ written
             THEN lastEvent'.ok /\ localStorage' = s
             ELSE ~lastEvent'.ok /\ localStorage' = localStorage ]_vars

\* C18 witness: a snapshot with version 0 and a layouts map was refused and
\* the loadable document in storage is still there
C18_Witness ==
    /\ lastEvent.type = "importLayouts"
    /\ ~lastEvent.ok
    /\ lastEvent.arg[2]
    /\ HasMember(lastEvent.arg[1], "version")
    /\ lastEvent.arg[1].version = 0
    /\ HasMember(lastEvent.arg[1], "layouts")
    /\ lastEvent.arg[1].layouts # JsonNull
    /\ loadLayouts(localStorage).kind = "layouts"

\* every write the save timers of this page load attempted has failed
OnlyFailedWrites == page = "active" /\ timerWrites >= 1 /\ localStorage = NoItem

\* C19: when the write of a firing save timer fails, nothing propagates: the
\* step changes neither the cache nor the rendering nor the gestures, and the
\* document stored before is still there; gestures that follow still update
\* the geometry, and every gesture end still arms a save.
C19_FailedWriteIsSwallowed ==
    /\ [][ (timers' # timers /\ lastEvent'.type = "saveFired" /\ ~lastEvent'.ok) =>
              /\ localStorage' = localStorage
              /\ UNCHANGED << cacheVars, domVars, gesture, activeEdges, keyVars, page,
                              saveTimeout >> ]_vars
    /\ [](OnlyFailedWrites =>
             /\ \A p \in Panels : gesture[p] = "drag" => DragSumExact(p)
             /\ lastEvent.type = "resizeMove" =>
                    /\ heap[widgetPositions[lastEvent.panel]].width = style[lastEvent.panel].width
                    /\ heap[widgetPositions[lastEvent.panel]].height = style[lastEvent.panel].height
             /\ lastEvent.type \in {"dragEnd", "resizeEnd"} =>
                    \E t \in timers : /\ t.id = saveTimeout
                                       /\ t.widgetId = lastEvent.panel
                                       /\ heap[t.position] = finalGeom[lastEvent.panel].g)

\* C19 witness: the first save failed, then a panel was dragged somewhere
\* else and its release armed a second save
C19_Witness ==
    /\ OnlyFailedWrites
    /\ lastEvent.type = "dragEnd"
    /\ nextTimerId = 3
    /\ \E t \in timers :
          heap[t.position].x #
              getDefaultPosition(getLayoutConfig(lastEvent.panel), viewport).x

\* r is what the length spec resolves to against the reference length L
ResolvesTo(r, value, L) ==
    IF value.pct THEN r * 100 = value.n * L ELSE r = value.n

\* C20: a percentage p% resolves against the reference length L to p*L/100, an
\* absolute spec n to n whatever L is; getDefaultPosition resolves x and width
\* against the viewport width, y and height against the viewport height, and
\* takes the zIndex of the spec, 1 when it sets none, so the result is a
\* function of (spec, viewport); '55%', '50px', '560px', '380px' at 1920x1080
\* give x 1056, y 50, width 560, height 380.
C20_ResolverValues ==
    /\ lastEvent.type = "parseValue" =>
          ResolvesTo(lastEvent.arg[3], lastEvent.arg[1], lastEvent.arg[2])
    /\ lastEvent.type = "getDefaultPosition" =>
          LET config == lastEvent.arg[1]
              g == lastEvent.arg[2]
          IN /\ ResolvesTo(g.x, config.defaultPosition.x, viewport.width)
             /\ ResolvesTo(g.y, config.defaultPosition.y, viewport.height)
             /\ ResolvesTo(g.width, config.defaultSize.width, viewport.width)
             /\ ResolvesTo(g.height, config.defaultSize.height, viewport.height)
             /\ g.zIndex = IF "zIndex" \in DOMAIN config THEN config.zIndex ELSE 1
             /\ (config = weatherWidget /\ viewport = [width |-> 1920, height |-> 1080]) =>
                    g = [x |-> 1056, y |-> 50, width |-> 560, height |-> 380, zIndex |-> 3]

\* C20 witness: the weather panel's default on a 1920x1080 viewport
C20_Witness ==
    /\ lastEvent.type = "getDefaultPosition"
    /\ lastEvent.arg[1] = weatherWidget
    /\ viewport.width = 1920
    /\ lastEvent.arg[2].x = 1056
    /\ lastEvent.arg[2].height = 380

\* the layout enables resizing on at least one axis
ResizingEnabled(config) ==
    IF config.resizable.kind = "bool" THEN config.resizable.value
    ELSE config.resizable.width \/ config.resizable.height

\* C21: registration attaches the drag machine exactly when the layout is
\* draggable, and a resize machine that can move an edge, together with the
\* resize-handle element, exactly when resizing is enabled on at least one
\* axis; with both axes disabled there is neither.
C21_MachinesFollowLayout ==
    lastEvent.type = "initializeWidget" =>
        LET config == lastEvent.arg[1]
            machines == lastEvent.arg[2]
            resizeHandle == lastEvent.arg[3]
            edges == lastEvent.arg[4]
        IN /\ ("drag" \in machines) <=> config.draggable
           /\ ("resize" \in machines /\ edges # {}) <=> ResizingEnabled(config)
           /\ resizeHandle <=> ResizingEnabled(config)

\* the layout lets the width / the height be resized
WidthEnabled(config) ==
    IF config.resizable.kind = "bool" THEN config.resizable.value ELSE config.resizable.width
HeightEnabled(config) ==
    IF config.resizable.kind = "bool" THEN config.resizable.value ELSE config.resizable.height

\* C22: no step of a resize gesture (start, move, end) changes the panel's
\* cached or rendered x and y or its cached zIndex; only the right edge, when
\* the layout enables the width, and the bottom edge, when it enables the
\* height, are ever moved, and an extent whose edge is not being moved keeps
\* its value: a width-only panel keeps its height, a height-only panel its
\* width.
C22_ResizeKeepsPosition ==
    [][ \A p \in Panels :
          ( /\ page = "active" /\ page' = "active"
            /\ gesture[p] = "resize" \/ gesture'[p] = "resize" ) =>
              LET before == heap[widgetPositions[p]]
                  after == heap'[widgetPositions'[p]]
                  config == getLayoutConfig(p)
              IN /\ after.x = before.x /\ after.y = before.y
                 /\ after.zIndex = before.zIndex
                 /\ style'[p].x = style[p].x /\ style'[p].y = style[p].y
                 /\ "right" \in activeEdges'[p] => WidthEnabled(config)
                 /\ "bottom" \in activeEdges'[p] => HeightEnabled(config)
                 /\ activeEdges'[p] \subseteq {"right", "bottom"}
                 /\ "right" \notin activeEdges[p] => after.width = before.width
                 /\ "bottom" \notin activeEdges[p] => after.height = before.height
                 /\ ~WidthEnabled(config) => after.width = before.width
                 /\ ~HeightEnabled(config) => after.height = before.height ]_vars

\* C22 witness: the width-only clock was widened; its height and position are
\* those it was registered with
C22_Witness ==
    /\ lastEvent.type = "resizeMove"
    /\ lastEvent.panel = "clock"
    /\ viewport.width = 360
    /\ heap[widgetPositions["clock"]] =
          [getDefaultPosition(clockWidget, viewport) EXCEPT !.width = 500]

GestureEventTypes ==
    {"dragStart", "dragRejected", "dragIgnored", "dragMove", "dragEnd",
     "resizeStart", "resizeMove", "resizeEnd"}

\* C23: whatever the interleaving of gestures on several panels, a start,
\* move or end event for panel P changes only P's cache entry, P's rendered
\* geometry and P's markers; every other panel's entry, rendering and gesture
\* are as before; and no two panels share one position object.
C23_CacheIsolation ==
    /\ [](\A p, q \in DOMAIN widgetPositions :
             p # q => widgetPositions[p] # widgetPositions[q])
    /\ [][ ( /\ page = "active" /\ page' = "active"
             /\ lastEvent'.type \in GestureEventTypes
             /\ (lastEvent' # lastEvent \/ nEvents' # nEvents) ) =>
                \A q \in Panels \ {lastEvent'.panel} :
                    /\ widgetPositions'[q] = widgetPositions[q]
                    /\ heap'[widgetPositions[q]] = heap[widgetPositions[q]]
                    /\ style'[q] = style[q]
                    /\ classList'[q] = classList[q]
                    /\ gesture'[q] = gesture[q]
                    /\ activeEdges'[q] = activeEdges[q] ]_vars

\* C23 witness: the calendar is being resized while a drag of the clock, which
\* has already moved it, is still in progress
C23_Witness ==
    /\ gesture["clock"] = "drag"
    /\ dragSum["clock"] # <<0, 0>>
    /\ gesture["calendar"] = "resize"
    /\ lastEvent.type = "resizeMove"
    /\ heap[widgetPositions["calendar"]].width # heap[widgetPositions["clock"]].width

\* the item is a version-matching document whose layouts member is a map
ReadableDocument(item) ==
    /\ VersionMatches(item)
    /\ "layouts" \in DOMAIN item
    /\ item.layouts # JsonNull

\* C24: saveWidgetLayout(id, g) with a write that succeeds leaves a document
\* whose layouts map has g under id; when the item was a readable,
\* version-matching document the map has, besides id, exactly the entries it
\* had, each as it was; when there was no item, or it did not parse, or its
\* version was another one, the map has the one entry id -> g.
C24_SaveOneTouchesOneEntry ==
    [][ (lastEvent'.type = "saveWidgetLayout" /\ lastEvent'.ok /\ lastEvent' # lastEvent) =>
          LET id == lastEvent'.panel
              g == lastEvent'.arg[1]
          IN /\ ReadableDocument(localStorage')
             /\ id \in DOMAIN localStorage'.layouts
             /\ localStorage'.layouts[id] = g
             /\ ReadableDocument(localStorage) =>
                    /\ DOMAIN localStorage'.layouts = DOMAIN localStorage.layouts \cup {id}
                    /\ \A q \in DOMAIN localStorage.layouts \ {id} :
                           localStorage'.layouts[q] = localStorage.layouts[q]
             /\ ( \/ localStorage = NoItem
                  \/ localStorage.kind = "garbage"
                  \/ localStorage.kind = "json" /\ ~VersionMatches(localStorage) ) =>
                    DOMAIN localStorage'.layouts = {id} ]_vars

\* C24 witness: the clock's entry was replaced by another geometry in a document
\* that still holds the calendar's entry as a previous session left it
C24_Witness ==
    /\ lastEvent.type = "saveWidgetLayout"
    /\ lastEvent.ok
    /\ lastEvent.panel = "clock"
    /\ lastEvent.arg[1] # storedGeometryOf("clock")
    /\ ReadableDocument(localStorage)
    /\ DOMAIN localStorage.layouts = Panels
    /\ localStorage.layouts["clock"] = lastEvent.arg[1]
    /\ localStorage.layouts["calendar"] = storedGeometryOf("calendar")

Breakpoints == {"mobile", "tablet", "desktop"}

\* the documents that differ from item in the breakpoint member only
BreakpointVariants(item) ==
    IF HasMember(item, "breakpoint")
    THEN { [item EXCEPT !.breakpoint = b] : b \in Breakpoints }
    ELSE { item }

\* C25: the breakpoint member of the stored document is inert.  Whatever the
\* item holds, loadLayouts returns for every document that differs from it in
\* the breakpoint only what it returns for the item, at every viewport
\* registration gives every panel the same geometry for both, and the geometry
\* registration has cached is the persisted entry also when the document was
\* recorded at another breakpoint than the viewport's.
C25_BreakpointIsInert ==
    /\ \A other \in BreakpointVariants(localStorage) :
          /\ loadLayouts(other) = loadLayouts(localStorage)
          /\ \A vp \in Viewports, p \in Panels :
                initialPosition(other, p, vp) = initialPosition(localStorage, p, vp)
    /\ lastEvent.type = "loadLayouts" =>
          \A other \in BreakpointVariants(localStorage) :
              lastEvent.arg[1] = loadLayouts(other)
    /\ lastEvent.type = "initialize" =>
          \A p \in Panels :
              /\ \A other \in BreakpointVariants(localStorage) :
                    heap[widgetPositions[p]] = initialPosition(other, p, viewport)
              /\ ( /\ HasPersistedEntry(localStorage, p)
                   /\ HasMember(localStorage, "breakpoint")
                   /\ localStorage.breakpoint # getCurrentBreakpoint(viewport) ) =>
                     /\ heap[widgetPositions[p]] = localStorage.layouts[p]
                     /\ style[p] = applyPosition(localStorage.layouts[p])

\* C25 witness: a document recorded on a phone, with both panels, was read on
\* a desktop and both panels got their entries
C25_Witness ==
    /\ lastEvent.type = "initialize"
    /\ viewport.width = 1920
    /\ VersionMatches(localStorage)
    /\ localStorage.breakpoint = "mobile"
    /\ \A p \in Panels :
          /\ HasPersistedEntry(localStorage, p)
          /\ heap[widgetPositions[p]] = storedGeometryOf(p)
          /\ heap[widgetPositions[p]] # getDefaultPosition(getLayoutConfig(p), viewport)

\* C26: every saveLayouts whose write succeeds leaves a document whose
\* version is the current schema version, whose breakpoint is mobile for a
\* viewport width below 768, tablet from 768 up to 1023 and desktop from 1024
\* on, and whose layouts member is the map passed: no entry of the document it
\* replaces survives unless the map has it.
C26_SaveAllWritesFreshDocument ==
    /\ [](( /\ lastEvent.type = "saveLayouts" /\ lastEvent.ok ) =>
             /\ localStorage.kind = "json"
             /\ DOMAIN localStorage = {"kind", "version", "breakpoint", "layouts"}
             /\ localStorage.version = STORAGE_VERSION
             /\ localStorage.breakpoint =
                    IF viewport.width < 768 THEN "mobile"
                    ELSE IF viewport.width <= 1023 THEN "tablet"
                    ELSE "desktop"
             /\ localStorage.layouts = lastEvent.arg[1])
    /\ [][ ( /\ lastEvent'.type = "saveLayouts" /\ lastEvent'.ok
             /\ localStorage.kind = "json" ) =>
               \A q \in DOMAIN localStorage.layouts :
                   q \in DOMAIN localStorage'.layouts => q \in DOMAIN lastEvent'.arg[1] ]_vars

\* C26 witness: at a width of 768 a map with the clock alone was written
C26_Witness ==
    /\ lastEvent.type = "saveLayouts"
    /\ lastEvent.ok
    /\ viewport.width = 768
    /\ localStorage.breakpoint = "tablet"
    /\ DOMAIN localStorage.layouts = {"clock"}

\* the debounced save is armed for p: the pending timer is a new one for p
SaveArmedFor(p) ==
    \E t \in timers' :
        /\ t.id = saveTimeout'
        /\ t.widgetId = p
        /\ t.position = widgetPositions[p]
        /\ t \notin timers

\* C27: whether the panel has no hook, its hook returns or its hook throws, a
\* drag end clears the dragging marker, restores the z-index the panel had
\* before the drag and arms the debounced save; a resize move updates the
\* cached geometry to the rectangle of the event and applies it; a resize end
\* clears the resizing marker and arms the debounced save.
C27_HooksNotRequired ==
    [][ \A p \in Panels :
          (page = "active" /\ page' = "active") =>
            /\ (gesture[p] = "drag" /\ gesture'[p] = "idle") =>
                  /\ lastEvent'.type = "dragEnd"
                  /\ "dragging" \notin classList'[p]
                  /\ style'[p].zIndex = preDragZ[p]
                  /\ SaveArmedFor(p)
            /\ (gesture[p] = "resize" /\ gesture'[p] = "idle") =>
                  /\ lastEvent'.type = "resizeEnd"
                  /\ "resizing" \notin classList'[p]
                  /\ SaveArmedFor(p)
            /\ ( /\ gesture[p] = "resize" /\ lastEvent'.type = "resizeMove"
                 /\ lastEvent'.panel = p /\ nEvents' # nEvents ) =>
                  LET rect == restrictSize(p, [width |-> lastEvent'.arg[1],
                                               height |-> lastEvent'.arg[2]])
                      after == heap'[widgetPositions[p]]
                  IN /\ after.width = rect.width
                     /\ after.height = rect.height
                     /\ style'[p].width = after.width
                     /\ style'[p].height = after.height
                     /\ style'[p].x = after.x
                     /\ style'[p].y = after.y ]_vars

\* C27 witness: the calendar's onDragEnd hook threw, and the marker is
\* cleared, the z-index restored and the save pending
C27_Witness ==
    /\ lastEvent.type = "dragEnd"
    /\ lastEvent.panel = "calendar"
    /\ lastEvent.hook = "onDragEnd"
    /\ ~lastEvent.ok
    /\ "dragging" \notin classList["calendar"]
    /\ style["calendar"].zIndex = preDragZ["calendar"]
    /\ \E t \in timers : t.id = saveTimeout /\ t.widgetId = "calendar"

\* C28: a write the save timer makes while a new gesture on the same panel is
\* in progress stores the geometry the panel had at the gesture end that
\* armed the timer, never the geometry the gesture in progress has reached.
C28_WriteIsGestureEndGeometry ==
    ( /\ SaveJustWritten
      /\ page = "active"
      /\ gesture[lastEvent.panel] # "idle" ) =>
        /\ finalGeom[lastEvent.panel].set
        /\ loadWidgetLayout(localStorage, lastEvent.panel).found
        /\ loadWidgetLayout(localStorage, lastEvent.panel).layout = finalGeom[lastEvent.panel].g

\* C29: in every state in which a panel has gesture handlers attached (it can
\* still receive gesture events), also between a resetLayout call and the
\* reinitialization, its geometry has been applied to its surface and the
\* cache holds its entry, so that a move or end handler finds the geometry.
C29_CacheHeldWhileInteractive ==
    \A p \in Panels :
        attached[p] # {} =>
            /\ style[p].applied
            /\ p \in DOMAIN widgetPositions
            /\ widgetPositions[p] \in DOMAIN heap

\* C30: the free-drag flag is looked at by the drag start only.  A step that
\* changes the flag while the page is active (keydown, keyup, window blur)
\* leaves every gesture in progress, the active edges, the cached and the
\* rendered geometry, the markers and the pending save as they were; whatever
\* the flag, a move of a drag in progress adds its delta to the cached and
\* rendered position, the end of a drag clears the marker, restores the
\* z-index and arms the save, and a move of a resize in progress applies the
\* rectangle of the event.
C30_GatingOnlyAtStart ==
    /\ [][ ( /\ isModifierKeyHeld' # isModifierKeyHeld
             /\ page = "active" /\ page' = "active" ) =>
               /\ gesture' = gesture
               /\ activeEdges' = activeEdges
               /\ widgetPositions' = widgetPositions
               /\ heap' = heap
               /\ style' = style
               /\ classList' = classList
               /\ timers' = timers
               /\ saveTimeout' = saveTimeout ]_vars
    /\ [][ \A p \in Panels :
             ( /\ page = "active" /\ page' = "active" /\ lastEvent'.panel = p ) =>
               /\ ( /\ gesture[p] = "drag" /\ lastEvent'.type = "dragMove"
                    /\ nEvents' # nEvents ) =>
                      LET before == heap[widgetPositions[p]]
                          after == heap'[widgetPositions[p]]
                      IN /\ after.x = before.x + lastEvent'.arg[1]
                         /\ after.y = before.y + lastEvent'.arg[2]
                         /\ style'[p].x = after.x
                         /\ style'[p].y = after.y
                         /\ gesture'[p] = "drag"
               /\ ( gesture[p] = "drag" /\ gesture'[p] = "idle" ) =>
                      /\ "dragging" \notin classList'[p]
                      /\ style'[p].zIndex = preDragZ[p]
                      /\ \E t \in timers' \ timers : t.id = saveTimeout' /\ t.widgetId = p
               /\ ( /\ gesture[p] = "resize" /\ lastEvent'.type = "resizeMove"
                    /\ nEvents' # nEvents ) =>
                      /\ heap'[widgetPositions[p]].width =
                             restrictSize(p, [width |-> lastEvent'.arg[1],
                                              height |-> lastEvent'.arg[2]]).width
                      /\ heap'[widgetPositions[p]].height =
                             restrictSize(p, [width |-> lastEvent'.arg[1],
                                              height |-> lastEvent'.arg[2]]).height
                      /\ gesture'[p] = "resize" ]_vars

\* C30 witness: a drag of the clock, accepted with free-drag mode on (the start
\* listener accepts no other), is still in progress after the flag went off,
\* and a move made since has been applied
C30_Witness ==
    /\ gesture["clock"] = "drag"
    /\ ~isModifierKeyHeld
    /\ "drag-mode-active" \notin bodyClasses
    /\ lastEvent.type = "dragMove"
    /\ lastEvent.panel = "clock"
    /\ dragSum["clock"] = lastEvent.arg
    /\ heap[widgetPositions["clock"]].x = dragFrom["clock"].g.x + lastEvent.arg[1]

\* C31: the store is written by the firing of the save timer and by
\* resetLayout only: a step that changes the item is the firing of a pending
\* timer or a reset; registration, gesture starts and gesture moves leave the
\* item as it was, and so does every step taken while no save is pending,
\* reset apart, so a session in which no gesture ends leaves the store as it
\* found it.
C31_OnlyTheTimerWrites ==
    /\ [][ localStorage' # localStorage =>
              \/ /\ lastEvent'.type = "saveFired"
                 /\ \E t \in timers : timers' = timers \ {t}
                 /\ timerWrites' = timerWrites + 1
              \/ lastEvent'.type = "reset" ]_vars
    /\ [][ ( \/ page = "loading" /\ page' = "active"
             \/ /\ lastEvent'.type \in {"dragStart", "dragRejected", "dragIgnored",
                                         "dragMove", "resizeStart", "resizeMove"}
                /\ (lastEvent' # lastEvent \/ nEvents' # nEvents)
             \/ timers = {} /\ lastEvent'.type # "reset" ) =>
               localStorage' = localStorage ]_vars

\* C31 witness: both panels were registered over an empty store and the clock
\* was dragged away from its default; no gesture has ended and there is still
\* no document
C31_Witness ==
    /\ page = "active"
    /\ lastEvent.type = "dragMove"
    /\ lastEvent.panel = "clock"
    /\ bursts = 0
    /\ timerWrites = 0
    /\ heap[widgetPositions["clock"]] # getDefaultPosition(clockWidget, viewport)
    /\ localStorage = NoItem

\* the zIndex registration gives p: every document of a session that started
\* on an empty store was written from the cache, so it is the configured one
registeredZIndex(p) == getDefaultPosition(getLayoutConfig(p), viewport).zIndex

\* C32: the front z-index a drag renders never reaches durable state.  In
\* every state the cached zIndex of every registered panel and the zIndex of
\* every persisted entry is the one the panel was registered with, also when
\* the timer wrote while a drag of the panel was in progress; and no step of
\* an active page changes a cached zIndex.
C32_FrontZIndexNeverPersisted ==
    /\ [](\A p \in Panels :
             /\ p \in DOMAIN widgetPositions =>
                    heap[widgetPositions[p]].zIndex = registeredZIndex(p)
             /\ p \in DOMAIN heap => heap[p].zIndex # FRONT_Z_INDEX
             /\ loadWidgetLayout(localStorage, p).found =>
                    loadWidgetLayout(localStorage, p).layout.zIndex = registeredZIndex(p))
    /\ [][ (page = "active" /\ page' = "active") =>
              \A p \in Panels :
                  heap'[widgetPositions'[p]].zIndex = heap[widgetPositions[p]].zIndex ]_vars

\* C32 witness: the timer wrote the clock's entry while a new drag of the clock
\* was in progress and had moved it, the element being rendered in front
C32_Witness ==
    /\ SaveJustWritten
    /\ lastEvent.panel = "clock"
    /\ gesture["clock"] = "drag"
    /\ dragSum["clock"] # <<0, 0>>
    /\ style["clock"].zIndex = ZNum(FRONT_Z_INDEX)
    /\ loadWidgetLayout(localStorage, "clock").found
    /\ loadWidgetLayout(localStorage, "clock").layout.zIndex = 1

\* C33: whenever importLayouts(s) returns true, the loadLayouts() that follows
\* returns the layouts map s contains.
C33_ImportThenLoad ==
    (lastEvent.type = "importLayouts" /\ lastEvent.ok) =>
        /\ HasMember(lastEvent.arg[1], "layouts")
        /\ loadLayouts(localStorage) = Layouts(lastEvent.arg[1].layouts)

\* C34: whatever the store holds, also nothing, importLayouts called with the
\* text exportLayouts has just returned (the write succeeding) returns true
\* and leaves the item and the result of loadLayouts() as they were.
C34_BackupRestoreRoundTrip ==
    [][ ( /\ lastEvent.type = "exportLayouts"
          /\ lastEvent'.type = "importLayouts"
          /\ lastEvent'.arg[1] = lastEvent.arg[1]
          /\ lastEvent'.arg[2] ) =>
            /\ lastEvent'.ok
            /\ localStorage' = localStorage
            /\ loadLayouts(localStorage') = loadLayouts(localStorage) ]_vars

\* C35: removeWidgetLayout(id) on a readable, version-matching document that
\* has an entry for id leaves (the write succeeding) a document with the same
\* entries but that of id, each as it was, and leaves the item as it is when
\* id has no entry or there is no loadable document; after clearAllLayouts()
\* loadLayouts() returns null and loadWidgetLayout(id) finds nothing, for
\* every id.
C35_RemoveOneAndClearAll ==
    /\ [][ lastEvent'.type = "removeWidgetLayout" =>
              LET id == lastEvent'.panel IN
              IF HasPersistedEntry(localStorage, id)
              THEN lastEvent'.ok =>
                     /\ ReadableDocument(localStorage')
                     /\ DOMAIN localStorage'.layouts = DOMAIN localStorage.layouts \ {id}
                     /\ \A q \in DOMAIN localStorage'.layouts :
                            localStorage'.layouts[q] = localStorage.layouts[q]
              ELSE localStorage' = localStorage ]_vars
    /\ [](lastEvent.type = "clearAllLayouts" =>
             /\ localStorage = NoItem
             /\ loadLayouts(localStorage) = NullLayouts
             /\ \A id \in Panels : ~loadWidgetLayout(localStorage, id).found)

\* C35 witness: the clock's entry was removed from a document that held both
\* panels; the calendar's entry is as it was
C35_Witness ==
    /\ lastEvent.type = "removeWidgetLayout"
    /\ lastEvent.panel = "clock"
    /\ lastEvent.ok
    /\ ReadableDocument(localStorage)
    /\ DOMAIN localStorage.layouts = {"calendar"}
    /\ localStorage.layouts["calendar"] = storedGeometryOf("calendar")

\* C36: loadWidgetLayout(id) returns the stored geometry of id when a
\* loadable document has an entry for id and null in every other case, also
\* when a loadable document has no entry for id.
C36_LoadOneOrNull ==
    lastEvent.type = "loadWidgetLayout" =>
        LET id == lastEvent.panel
            result == lastEvent.arg[1]
        IN IF HasPersistedEntry(localStorage, id)
           THEN result = [found |-> TRUE, layout |-> localStorage.layouts[id]]
           ELSE result = [found |-> FALSE, value |-> "null"]

====
